---- MODULE Spec2Model ----
(***************************************************************************)
(* Model of matscipy/eam/io.py: readers, writers and the mixer of the      *)
(* "eam" and "eam/alloy" tabulated potential files.                        *)
(*                                                                         *)
(* A file is a sequence of lines, a line a sequence of whitespace          *)
(* separated tokens.  Numbers are fixed-point integers; a printf           *)
(* conversion keeps the digits the format keeps.  An ndarray is a shape    *)
(* with its row-major data.                                                *)
(***************************************************************************)
EXTENDS Integers, Sequences, FiniteSets, TLC

\* ------------------------------------------------------------------ bounds
MaxN == 2          \* largest grid size Nrho, Nr of an input potential
MaxHeap == 1       \* patterns 0..MaxHeap of stale memory behind np.empty
MaxFiles == 2      \* longest list of files handed to mix_eam_alloy

\* --------------------------------------------------------------- integers
Abs(x) == IF x < 0 THEN -x ELSE x

Min(a, b) == IF a < b THEN a ELSE b

RECURSIVE NumDigits(_)
NumDigits(x) == IF x < 10 THEN 1 ELSE 1 + NumDigits(x \div 10)

RECURSIVE RoundSig(_, _)
RoundSig(x, d) == IF NumDigits(x) <= d THEN x ELSE 10 * RoundSig((x + 5) \div 10, d)

\* '%e': 7 significant digits
FmtE(x) == IF x < 0 THEN -RoundSig(-x, 7) ELSE RoundSig(x, 7)

\* '%.16e': 17 significant digits
Fmt16E(x) == IF x < 0 THEN -RoundSig(-x, 17) ELSE RoundSig(x, 17)

\* '%f': 6 decimals of a number held in units of 1e-7
FmtF(x) == ((x + 5) \div 10) * 10

\* np.sqrt on fixed-point values
Sqrt(n) == CHOOSE r \in 0..n : r * r <= n /\ (r + 1) * (r + 1) > n

\* ----------------------------------------------------------------- tokens
IntTok(n) == [k |-> "int", n |-> n, s |-> ""]

FltTok(n) == [k |-> "flt", n |-> n, s |-> ""]

StrTok(s) == [k |-> "str", n |-> 0, s |-> s]

IsNum(t) == t.k \in {"int", "flt"}

\* --------------------------------------------------------------- ndarrays
RECURSIVE Prod(_)
Prod(s) == IF s = <<>> THEN 1 ELSE Head(s) * Prod(Tail(s))

Arr(shape, data) == [shape |-> shape, data |-> data]

\* a[i] : the i-th sub-array along the first axis
Sub(a, i) ==
    LET sz == Prod(Tail(a.shape))
    IN  Arr(Tail(a.shape), SubSeq(a.data, i * sz + 1, (i + 1) * sz))

\* len(a)
ALen(a) == Head(a.shape)

\* data[lo:hi] of a flat sequence
Slice(data, lo, hi) == SubSeq(data, Min(lo, Len(data)) + 1, Min(hi, Len(data)))

RECURSIVE Flatten(_)
Flatten(ss) == IF ss = <<>> THEN <<>> ELSE Head(ss) \o Flatten(Tail(ss))

\* ------------------------------------------------------- input potentials
\* Per-species constants of the header line (mass and lattice constant in
\* units of 1e-7).
AtNumber(sp) == IF sp = "Cu" THEN 29 ELSE 28

AtMass(sp) == IF sp = "Cu" THEN 635460004 ELSE 586934000

CrystalLatt(sp) == IF sp = "Cu" THEN 36150000 ELSE 35200000

Crystal(sp) == "fcc"

\* Tabulated samples of the input potentials, k = 0..N-1.
FVal(sp, k) == IF sp = "Cu" THEN 10 + 3 * k ELSE 20 + 5 * k

fVal(sp, k) == IF sp = "Cu" THEN 30 + 2 * k ELSE 40 + 7 * k

RepVal(a, b, k) ==
    IF a # b THEN 50 + k
    ELSE IF a = "Cu" THEN (2 + 2 * k) * (2 + 2 * k)
    ELSE IF k % 2 = 0 THEN 9 ELSE -1

\* A valid header/table triple: K species, F is K x Nrho, f is K x Nr and
\* rep is a symmetric K x K x Nr table.
Potential(source, atoms, Nrho, drho, Nr, dr, cutoff) ==
    LET K == Len(atoms)
    IN  [source |-> source,
         atoms |-> atoms,
         atnumber |-> [i \in 1..K |-> AtNumber(atoms[i])],
         atmass |-> [i \in 1..K |-> AtMass(atoms[i])],
         crystallatt |-> [i \in 1..K |-> CrystalLatt(atoms[i])],
         crystal |-> [i \in 1..K |-> Crystal(atoms[i])],
         Nrho |-> Nrho, Nr |-> Nr, drho |-> drho, dr |-> dr, cutoff |-> cutoff,
         F |-> Arr(<<K, Nrho>>,
                   [n \in 1..(K * Nrho) |->
                       FVal(atoms[((n - 1) \div Nrho) + 1], (n - 1) % Nrho)]),
         f |-> Arr(<<K, Nr>>,
                   [n \in 1..(K * Nr) |->
                       fVal(atoms[((n - 1) \div Nr) + 1], (n - 1) % Nr)]),
         rep |-> Arr(<<K, K, Nr>>,
                     [n \in 1..(K * K * Nr) |->
                         RepVal(atoms[((n - 1) \div (K * Nr)) + 1],
                                atoms[(((n - 1) \div Nr) % K) + 1],
                                (n - 1) % Nr)])]

AlloyFiles == {"a", "b"}

Steps == {1, 3}

\* spacing and cutoff of the r-grid of file "a": the finer grid with the
\* larger cutoff, the coarser grid with the smaller one
RGrids == { <<1, 60000001>>, <<3, 50000000>> }

\* The potentials the caller writes: to file "a" copper on every grid, and a
\* copper-nickel alloy and a copper potential whose source text holds a line
\* break on every pair of grid sizes; to file "b" nickel, its cutoff between
\* the two of file "a".
Potentials(name) ==
    IF name = "a"
    THEN { Potential(<<"s">>, <<"Cu">>, Nrho, drho, Nr, g[1], g[2]) :
             Nrho \in 1..MaxN, drho \in Steps, Nr \in 1..MaxN, g \in RGrids }
         \cup
         { Potential(x[1], x[2], Nrho, 1, Nr, 3, 60000001) :
             x \in { << <<"s">>, <<"Cu", "Ni">> >>, << <<"s", "t">>, <<"Cu">> >> },
             Nrho \in 1..MaxN, Nr \in 1..MaxN }
    ELSE { Potential(<<"s">>, <<"Ni">>, Nrho, drho, Nr, 1, 55000000) :
             Nrho \in 1..MaxN, drho \in Steps, Nr \in 1..MaxN }

\* ------------------------------------------------------- write_eam_alloy
\* --- the text "# Mixed EAM alloy potential from :\n#%s \n#\n"
TitleLines(source) ==
    <<  <<StrTok("# Mixed EAM alloy potential from :")>>  >>
    \o [i \in 1..Len(source) |->
           << StrTok(IF i = 1 THEN "#" \o source[i] ELSE source[i]) >>]
    \o <<  <<StrTok("#")>>  >>

\* --- '%i\t%f\t%f\t%s\n'
AtLine(p, i) ==
    << IntTok(p.atnumber[i]), FltTok(FmtF(p.atmass[i])),
       FltTok(FmtF(p.crystallatt[i])), StrTok(p.crystal[i]) >>

\* --- '%i\t%e\t%i\t%e\t%e\n'
GridLine(p) ==
    << IntTok(p.Nrho), FltTok(FmtE(p.drho)), IntTok(p.Nr), FltTok(FmtE(p.dr)),
       FltTok(FmtE(p.cutoff)) >>

\* --- "for j in a: potfile.write('%.16e \n' % j)": one line per element
\* along the first axis of a; '%' converts an element that is a scalar or an
\* array of one entry and raises TypeError on any other array.
Formattable(a) == ALen(a) = 0 \/ Prod(Tail(a.shape)) = 1

ValueLines(a) ==
    IF Formattable(a)
    THEN [m \in 1..ALen(a) |-> << FltTok(Fmt16E(Sub(a, m - 1).data[1])) >>]
    ELSE <<>>

\* --- the block of species i (from 0): its header line, F[i,:], f[i,:]
SpeciesBlock(p, i) ==
    <<AtLine(p, i + 1)>> \o ValueLines(Sub(p.F, i))
    \o (IF Formattable(Sub(p.F, i)) THEN ValueLines(Sub(p.f, i)) ELSE <<>>)

SpeciesBlockOk(p, i) == Formattable(Sub(p.F, i)) /\ Formattable(Sub(p.f, i))

\* --- rows j <= i of the pair table, the diagonal last in each row
PairRow(p, i) ==
    Flatten([j \in 1..(i + 1) |-> ValueLines(Sub(Sub(p.rep, i), j - 1))])

\* The lines on disk after write_eam_alloy, and whether the call returned;
\* when '%' raises the lines written before it remain in the file.
RECURSIVE SpeciesBlocks(_, _)
SpeciesBlocks(p, i) ==
    IF i >= Len(p.atoms) THEN [ok |-> TRUE, lines |-> <<>>]
    ELSE IF ~SpeciesBlockOk(p, i) THEN [ok |-> FALSE, lines |-> SpeciesBlock(p, i)]
    ELSE LET rest == SpeciesBlocks(p, i + 1)
         IN  [ok |-> rest.ok, lines |-> SpeciesBlock(p, i) \o rest.lines]

write_eam_alloy(p) ==
    LET head == TitleLines(p.source)
                \o << <<IntTok(Len(p.atoms))>> \o [i \in 1..Len(p.atoms) |-> StrTok(p.atoms[i])] >>
                \o << GridLine(p) >>
        blocks == SpeciesBlocks(p, 0)
        pairs == Flatten([i \in 1..ALen(p.rep) |-> PairRow(p, i - 1)])
    IN  IF blocks.ok
        THEN [ok |-> TRUE, lines |-> head \o blocks.lines \o pairs]
        ELSE [ok |-> FALSE, lines |-> head \o blocks.lines]

\* --------------------------------------------------------- result values
NoArr == Arr(<<0>>, <<>>)

NoPot ==
    [source |-> <<>>, atoms |-> <<>>, atnumber |-> <<>>, atmass |-> <<>>,
     crystallatt |-> <<>>, crystal |-> <<>>,
     Nrho |-> 0, Nr |-> 0, drho |-> 0, dr |-> 0, cutoff |-> 0,
     F |-> NoArr, f |-> NoArr, rep |-> NoArr]

\* what a call returned, or the exception it raised
Raise(err) == [status |-> err, pot |-> NoPot]

Return(pot) == [status |-> "ok", pot |-> pot]

\* np.empty: entry n of a fresh buffer holds whatever pattern h of stale
\* memory left there
Stale(h, n) == h * (6 + n)

\* ------------------------------------------------------------ text lines
TokText(t) == IF t.k = "str" THEN t.s ELSE ToString(t.n)

RECURSIVE LineText(_)
LineText(line) ==
    IF line = <<>> THEN ""
    ELSE IF Len(line) = 1 THEN TokText(line[1])
    ELSE TokText(line[1]) \o " " \o LineText(Tail(line))

\* int(tok), float(tok) succeed on these tokens
IntOk(line, n) == n <= Len(line) /\ line[n].k = "int"

FloatOk(line, n) == n <= Len(line) /\ IsNum(line[n])

\* "Nrho drho Nr dr cutoff"
GridOk(line) ==
    /\ IntOk(line, 1) /\ IntOk(line, 3)
    /\ FloatOk(line, 2) /\ FloatOk(line, 4) /\ FloatOk(line, 5)

\* "atnumber atmass crystallatt crystal"
AtOk(line) == IntOk(line, 1) /\ FloatOk(line, 2) /\ FloatOk(line, 3) /\ Len(line) >= 4

\* -------------------------------------------------------- read_eam_alloy
\* the stride without the species' own header line
HeaderRowNoHeaderLine(i, Nrho, Nr, l) == 5 + (i * (Nr + Nrho)) \div l

\* row = int(5+i*((Nr+Nrho)/l+1)), l the token count of line 6
HeaderRow(i, Nrho, Nr, l) == 5 + i + (i * (Nr + Nrho)) \div l

\* The position of a text stream: line ln, token tk, both from 1.
Advance(lines, c) ==
    IF c.tk < Len(lines[c.ln]) THEN [ln |-> c.ln, tk |-> c.tk + 1]
    ELSE [ln |-> c.ln + 1, tk |-> 1]

\* eam.readline()
ReadLine(lines, c) == IF c.ln > Len(lines) THEN c ELSE [ln |-> c.ln + 1, tk |-> 1]

\* np.fromfile(eam, count, sep=' '): numbers up to count (all when count is
\* -1), stopping at the end of the file or before a token that is no number
RECURSIVE FromFile(_, _, _, _)
FromFile(lines, c, count, acc) ==
    IF count = 0 \/ c.ln > Len(lines) THEN [vals |-> acc, c |-> c]
    ELSE IF ~IsNum(lines[c.ln][c.tk]) THEN [vals |-> acc, c |-> c]
    ELSE FromFile(lines, Advance(lines, c), IF count > 0 THEN count - 1 ELSE count,
                  Append(acc, lines[c.ln][c.tk].n))

\* the loop "eam.readline(); data = np.append(data, np.fromfile(...))" from
\* species i on, then the final np.fromfile(eam, count=-1)
RECURSIVE AlloyData(_, _, _, _, _, _)
AlloyData(lines, c, i, K, count, acc) ==
    IF i >= K THEN acc \o FromFile(lines, c, -1, <<>>).vals
    ELSE LET r == FromFile(lines, ReadLine(lines, c), count, <<>>)
         IN  AlloyData(lines, r.c, i + 1, K, count, acc \o r.vals)

\* a[..., :] = values : the values, one value broadcast, or ValueError
AssignOk(N, values) == Len(values) = N \/ Len(values) = 1

Assign(N, values) == IF Len(values) = N THEN values ELSE [k \in 1..N |-> values[1]]

\* number of pair functions stored before rep[i,j,:], j <= i
Interaction(i, j) == (i * (i + 1)) \div 2 + j

read_eam_alloy(lines, h) ==
    IF lines = <<>> THEN Raise("IOError")
    ELSE IF Len(lines) < 5 THEN Raise("IndexError")
    ELSE IF ~GridOk(lines[5]) THEN Raise("ValueError")
    ELSE
    LET source == << LineText(lines[1]) \o LineText(lines[2]) \o LineText(lines[3]) >>
        atoms == [i \in 1..(Len(lines[4]) - 1) |-> TokText(lines[4][i + 1])]
        K == Len(atoms)
        Nrho == lines[5][1].n
        Nr == lines[5][3].n
        drho == lines[5][2].n
        dr == lines[5][4].n
        cutoff == lines[5][5].n
        l == Len(lines[7])
        row(i) == HeaderRow(i, Nrho, Nr, l) + 1
        data == AlloyData(lines, [ln |-> 6, tk |-> 1], 0, K, Nrho + Nr, <<>>)
        Frow(i) == Slice(data, i * (Nrho + Nr), Nrho + i * (Nrho + Nr))
        frow(i) == Slice(data, Nrho + i * (Nrho + Nr), Nrho + Nr + i * (Nrho + Nr))
        pair(n) == Slice(data, K * (Nrho + Nr) + n * Nr, K * (Nrho + Nr) + n * Nr + Nr)
    IN  IF K > 0 /\ Len(lines) < 7 THEN Raise("IndexError")
        ELSE IF K > 0 /\ l = 0 THEN Raise("ZeroDivisionError")
        ELSE IF \E i \in 0..(K - 1) : row(i) > Len(lines) THEN Raise("IndexError")
        ELSE IF \E i \in 0..(K - 1) : ~AtOk(lines[row(i)]) THEN Raise("ValueError")
        ELSE IF \E i \in 0..(K - 1) :
                   ~AssignOk(Nrho, Frow(i)) \/ ~AssignOk(Nr, frow(i)) THEN Raise("ValueError")
        ELSE IF \E i \in 0..(K - 1) : \E j \in 0..i :
                   ~AssignOk(Nr, pair(Interaction(i, j))) THEN Raise("ValueError")
        ELSE Return(
          [source |-> source,
           atoms |-> atoms,
           atnumber |-> [i \in 1..K |-> lines[row(i - 1)][1].n],
           atmass |-> [i \in 1..K |-> lines[row(i - 1)][2].n],
           crystallatt |-> [i \in 1..K |-> lines[row(i - 1)][3].n],
           crystal |-> [i \in 1..K |-> TokText(lines[row(i - 1)][4])],
           Nrho |-> Nrho, Nr |-> Nr, drho |-> drho, dr |-> dr, cutoff |-> cutoff,
           F |-> Arr(<<K, Nrho>>,
                     Flatten([i \in 1..K |-> Assign(Nrho, Frow(i - 1))])),
           f |-> Arr(<<K, Nr>>,
                     Flatten([i \in 1..K |-> Assign(Nr, frow(i - 1))])),
           rep |-> Arr(<<K, K, Nr>>,
                       [n \in 1..(K * K * Nr) |->
                          LET i == (n - 1) \div (K * Nr)
                              j == ((n - 1) \div Nr) % K
                              k == (n - 1) % Nr
                          IN  IF j <= i
                              THEN Assign(Nr, pair(Interaction(i, j)))[k + 1]
                              ELSE Stale(h, n)])])

\* --------------------------------------------------------- mix_eam_alloy
\* the first file taken whatever its grid
ArgFirst(xs) == 1

\* cutoff.argmin(): the first index (from 1) of a smallest entry
ArgMin(xs) ==
    CHOOSE i \in 1..Len(xs) :
        /\ \A j \in 1..Len(xs) : xs[i] <= xs[j]
        /\ \A j \in 1..(i - 1) : xs[j] > xs[i]

\* InterpolatedUnivariateSpline(np.linspace(0, Ns*ds, Ns), y)(np.linspace(0, Nd*dd, Nd)):
\* the interpolant through the Ns source samples, evaluated at the Nd
\* destination points; represented by the piecewise-linear interpolant,
\* continued linearly past the last source sample.
Resample(y, Ns, ds, Nd, dd) ==
    [n \in 1..Nd |->
        IF Ns = 1 \/ Nd = 1 THEN y[1]
        ELSE LET num == (n - 1) * (Nd * dd) * (Ns - 1)
                 den == (Nd - 1) * (Ns * ds)
                 m == Min(num \div den, Ns - 2)
             IN  y[m + 1] + ((y[m + 2] - y[m + 1]) * (num - m * den)) \div den]

\* the spline takes y with one sample per abscissa: a 1-D array, or an array
\* that has a single axis longer than 1
SplineOk(a, Ns) ==
    /\ Prod(a.shape) = Ns
    /\ Cardinality({d \in 1..Len(a.shape) : a.shape[d] > 1}) <= 1

rep_list == <<0, 2, 5, 9, 14>>

\* rep[rep_list[i],:] of a file's pair table, i from 0
RepLookupOk(rep, i) == i < Len(rep_list) /\ rep_list[i + 1] < ALen(rep)

RepLookup(rep, i) == Sub(rep, rep_list[i + 1])

\* species n (from 0) of the combined list: its file (index into reads) and
\* its index i within that file
RECURSIVE Locate(_, _, _)
Locate(reads, j, n) ==
    IF n < Len(reads[j].atoms) THEN [j |-> j, i |-> n]
    ELSE Locate(reads, j + 1, n - Len(reads[j].atoms))

RECURSIVE ConcatStr(_)
ConcatStr(ss) == IF ss = <<>> THEN "" ELSE Head(ss) \o ConcatStr(Tail(ss))

mix_eam_alloy(texts, h) ==
    LET res == [j \in 1..Len(texts) |-> read_eam_alloy(texts[j], h)]
    IN
    IF \E j \in 1..Len(texts) : res[j].status # "ok"
    THEN Raise(res[CHOOSE j \in 1..Len(texts) :
                     /\ res[j].status # "ok"
                     /\ \A m \in 1..(j - 1) : res[m].status = "ok"].status)
    ELSE IF texts = <<>> THEN Raise("ValueError")
    ELSE
    LET reads == [j \in 1..Len(texts) |-> res[j].pot]
        nb_at == Len(Flatten([j \in 1..Len(reads) |-> reads[j].atoms]))
        min_cutoff == ArgMin([j \in 1..Len(reads) |-> reads[j].cutoff])
        min_prod == ArgMin([j \in 1..Len(reads) |-> reads[j].Nrho * reads[j].drho])
        Nrho_ == reads[min_prod].Nrho
        Nr_ == reads[min_cutoff].Nr
        drho_ == reads[min_prod].drho
        dr_ == reads[min_cutoff].dr
        at(n) == Locate(reads, 1, n)
        src(n) == reads[at(n).j]
        selfrep(n) == RepLookup(src(n).rep, at(n).i)
        Fdiag(n) == Resample(Sub(src(n).F, at(n).i).data, src(n).Nrho, src(n).drho, Nrho_, drho_)
        fdiag(n) == Resample(Sub(src(n).f, at(n).i).data, src(n).Nr, src(n).dr, Nr_, dr_)
        repdiag(n) == Resample(selfrep(n).data, src(n).Nr, src(n).dr, Nr_, dr_)
        bad == {n \in 0..(nb_at - 1) :
                   ~RepLookupOk(src(n).rep, at(n).i) \/ ~SplineOk(selfrep(n), src(n).Nr)}
        first == CHOOSE n \in bad : \A m \in bad : n <= m
    IN
    IF bad # {}
    THEN Raise(IF RepLookupOk(src(first).rep, at(first).i) THEN "ValueError" ELSE "IndexError")
    ELSE Return(
      [source |-> << ConcatStr(Flatten([j \in 1..Len(reads) |-> reads[j].source])) >>,
       atoms |-> Flatten([j \in 1..Len(reads) |-> reads[j].atoms]),
       atnumber |-> Flatten([j \in 1..Len(reads) |-> reads[j].atnumber]),
       atmass |-> Flatten([j \in 1..Len(reads) |-> reads[j].atmass]),
       crystallatt |-> Flatten([j \in 1..Len(reads) |-> reads[j].crystallatt]),
       crystal |-> Flatten([j \in 1..Len(reads) |-> reads[j].crystal]),
       Nrho |-> Nrho_, Nr |-> Nr_, drho |-> drho_, dr |-> dr_,
       cutoff |-> reads[min_cutoff].cutoff,
       F |-> Arr(<<nb_at, nb_at, Nrho_>>,
                 [n \in 1..(nb_at * nb_at * Nrho_) |->
                    LET i == (n - 1) \div (nb_at * Nrho_)
                        j == ((n - 1) \div Nrho_) % nb_at
                        k == (n - 1) % Nrho_
                    IN  IF i = j THEN Fdiag(i)[k + 1] ELSE Stale(h, n)]),
       f |-> Arr(<<nb_at, nb_at, Nr_>>,
                 [n \in 1..(nb_at * nb_at * Nr_) |->
                    LET i == (n - 1) \div (nb_at * Nr_)
                        j == ((n - 1) \div Nr_) % nb_at
                        k == (n - 1) % Nr_
                    IN  IF i = j THEN fdiag(i)[k + 1] ELSE Stale(h, n)]),
       rep |-> Arr(<<nb_at, nb_at, Nr_>>,
                   [n \in 1..(nb_at * nb_at * Nr_) |->
                      LET i == (n - 1) \div (nb_at * Nr_)
                          j == ((n - 1) \div Nr_) % nb_at
                          k == (n - 1) % Nr_
                      IN  IF i = j THEN repdiag(i)[k + 1]
                          ELSE IF j > i
                          THEN Sqrt(Abs(repdiag(i)[k + 1] * repdiag(j)[k + 1]))
                          ELSE Stale(h, n)])])

\* ------------------------------------------------- write_eam and read_eam
\* A single-species potential in the shape write_eam takes: 1-D tables.
EamPotential(Nrho, drho, Nr, dr, cutoff) ==
    [NoPot EXCEPT
       !.source = <<"s">>, !.atnumber = <<AtNumber("Cu")>>, !.atmass = <<AtMass("Cu")>>,
       !.crystallatt = <<CrystalLatt("Cu")>>, !.crystal = <<Crystal("Cu")>>,
       !.Nrho = Nrho, !.Nr = Nr, !.drho = drho, !.dr = dr, !.cutoff = cutoff,
       !.F = Arr(<<Nrho>>, [k \in 1..Nrho |-> FVal("Cu", k - 1)]),
       !.f = Arr(<<Nr>>, [k \in 1..Nr |-> fVal("Cu", k - 1)]),
       !.rep = Arr(<<Nr>>, [k \in 1..Nr |-> RepVal("Cu", "Cu", k - 1)])]

write_eam(p) ==
    << <<StrTok("# EAM potential from : # " \o p.source[1])>>,
       \* "%i %f %f %s\n"
       << IntTok(p.atnumber[1]), FltTok(FmtF(p.atmass[1])),
          FltTok(FmtF(p.crystallatt[1])), StrTok(p.crystal[1]) >>,
       \* '%i\t%.16e\t%i\t%.16e\t%.10e\n'
       << IntTok(p.Nrho), FltTok(Fmt16E(p.drho)), IntTok(p.Nr), FltTok(Fmt16E(p.dr)),
          FltTok(IF p.cutoff < 0 THEN -RoundSig(-p.cutoff, 11) ELSE RoundSig(p.cutoff, 11)) >> >>
    \o ValueLines(p.F) \o ValueLines(p.f) \o ValueLines(p.rep)

\* np.loadtxt(eam_file, dtype="float", skiprows=3): its rows hold numbers
\* only and equally many each
LoadTxtOk(lines) ==
    \A r \in 4..Len(lines) :
        /\ \A t \in 1..Len(lines[r]) : IsNum(lines[r][t])
        /\ Len(lines[r]) = Len(lines[4])

LoadTxt(lines) ==
    Flatten([r \in 1..(Len(lines) - 3) |-> [t \in 1..Len(lines[r + 3]) |-> lines[r + 3][t].n]])

read_eam(lines) ==
    IF lines = <<>> THEN Raise("IOError")
    ELSE IF Len(lines) < 3 THEN Raise("IndexError")
    ELSE IF ~AtOk(lines[2]) \/ ~GridOk(lines[3]) \/ ~LoadTxtOk(lines) THEN Raise("ValueError")
    ELSE
    LET Nrho == lines[3][1].n
        Nr == lines[3][3].n
        data == LoadTxt(lines)
        F == Slice(data, 0, Nrho)
        f == Slice(data, Nrho, Nrho + Nr)
        rep == Slice(data, Nrho + Nr, 2 * Nr + Nrho)
    IN  Return([NoPot EXCEPT
           !.source = <<LineText(lines[1])>>,
           !.atnumber = <<lines[2][1].n>>, !.atmass = <<lines[2][2].n>>,
           !.crystallatt = <<lines[2][3].n>>, !.crystal = <<TokText(lines[2][4])>>,
           !.Nrho = Nrho, !.Nr = Nr, !.drho = lines[3][2].n, !.dr = lines[3][4].n,
           !.cutoff = lines[3][5].n,
           !.F = Arr(<<Len(F)>>, F), !.f = Arr(<<Len(f)>>, f),
           !.rep = Arr(<<Len(rep)>>, rep)])

\* The eam files handed to read_eam: a file write_eam produced, whole or cut
\* short after any of its data lines.
EamFiles ==
    UNION { { SubSeq(write_eam(EamPotential(Nrho, 1, Nr, 3, 50000000)), 1, 3 + n) :
                n \in 0..(Nrho + 2 * Nr) } : Nrho \in 1..MaxN, Nr \in 1..MaxN }

\* ------------------------------------------------------------------ state
\* disk  : the lines of each file, <<>> for a file that does not exist
\* wrote : the potential the caller handed to the write_eam_alloy call that
\*         produced each file
\* ret   : the last call, its arguments and what it returned or raised
VARIABLES disk, wrote, ret

vars == <<disk, wrote, ret>>

FileNames == AlloyFiles \cup {"m"}

Call(op, files, text, r) ==
    [op |-> op, files |-> files, text |-> text, status |-> r.status, pot |-> r.pot]

Init ==
    /\ disk = [n \in FileNames |-> <<>>]
    /\ wrote = [n \in FileNames |-> NoPot]
    /\ ret = Call("none", <<>>, <<>>, Raise("none"))

\* A session writes its input files, makes one reading or mixing call, and
\* may write the mixed potential out.
Idle == ret.op \in {"none", "write_eam_alloy"} /\ disk["m"] = <<>>

\* write_eam_alloy(source, parameters, F, f, rep, name) on an input potential
WriteEamAlloy(name, p) ==
    /\ Idle
    /\ disk[name] = <<>>
    /\ LET w == write_eam_alloy(p)
       IN  /\ disk' = [disk EXCEPT ![name] = w.lines]
           /\ wrote' = [wrote EXCEPT ![name] = p]
           /\ ret' = Call("write_eam_alloy", <<name>>, <<>>,
                          IF w.ok THEN Return(NoPot) ELSE Raise("TypeError"))

\* read_eam_alloy(name)
ReadEamAlloy(name, h) ==
    /\ Idle
    /\ ret' = Call("read_eam_alloy", <<name>>, <<>>, read_eam_alloy(disk[name], h))
    /\ UNCHANGED <<disk, wrote>>

\* mix_eam_alloy(files)
MixEamAlloy(files, h) ==
    /\ Idle
    /\ ret' = Call("mix_eam_alloy", files, <<>>,
                   mix_eam_alloy([j \in 1..Len(files) |-> disk[files[j]]], h))
    /\ UNCHANGED <<disk, wrote>>

\* write_eam_alloy(*mix_eam_alloy(files), "m"): the mixer's result written out
WriteMixed ==
    /\ ret.op = "mix_eam_alloy" /\ ret.status = "ok"
    /\ disk["m"] = <<>>
    /\ LET w == write_eam_alloy(ret.pot)
       IN  /\ disk' = [disk EXCEPT !["m"] = w.lines]
           /\ wrote' = [wrote EXCEPT !["m"] = ret.pot]
           /\ ret' = Call("write_eam_alloy", <<"m">>, <<>>,
                          IF w.ok THEN Return(NoPot) ELSE Raise("TypeError"))

\* read_eam(file) on an eam file of the caller
ReadEam(text) ==
    /\ ret.op = "none"
    /\ ret' = Call("read_eam", <<>>, text, read_eam(text))
    /\ UNCHANGED <<disk, wrote>>

FileLists == UNION { [1..n -> AlloyFiles] : n \in 0..MaxFiles }

Next ==
    \/ \E name \in AlloyFiles : \E p \in Potentials(name) : WriteEamAlloy(name, p)
    \/ \E name \in AlloyFiles : \E h \in 0..MaxHeap : ReadEamAlloy(name, h)
    \/ \E files \in FileLists : \E h \in 0..MaxHeap : MixEamAlloy(files, h)
    \/ WriteMixed
    \/ \E text \in EamFiles : ReadEam(text)

Spec == Init /\ [][Next]_vars

\* ------------------------------------------------------------ properties
At3(a, i, j, k) == a.data[(i * a.shape[2] + j) * a.shape[3] + k + 1]

IsRead(name) == ret.op = "read_eam_alloy" /\ ret.files = <<name>>

IsMix == ret.op = "mix_eam_alloy"

\* what read_eam_alloy returns for the files of the last mix call (a table
\* entry the reader leaves unassigned taken as 0)
MixInputs == [j \in 1..Len(ret.files) |-> read_eam_alloy(disk[ret.files[j]], 0)]

\* C1: reading back a file written from a valid triple (source without line
\* break) returns the species list, the grid parameters and every entry of
\* the three tables as the writer's formats printed them.
RoundTrip ==
    \A name \in AlloyFiles :
        (IsRead(name) /\ Len(wrote[name].source) = 1) =>
            LET p == wrote[name]
                q == ret.pot
            IN  /\ ret.status = "ok"
                /\ q.atoms = p.atoms
                /\ q.Nrho = p.Nrho /\ q.Nr = p.Nr
                /\ q.drho = FmtE(p.drho) /\ q.dr = FmtE(p.dr) /\ q.cutoff = FmtE(p.cutoff)
                /\ q.F.shape = p.F.shape /\ q.f.shape = p.f.shape /\ q.rep.shape = p.rep.shape
                /\ \A n \in 1..Len(p.F.data) : q.F.data[n] = Fmt16E(p.F.data[n])
                /\ \A n \in 1..Len(p.f.data) : q.f.data[n] = Fmt16E(p.f.data[n])
                /\ \A n \in 1..Len(p.rep.data) : q.rep.data[n] = Fmt16E(p.rep.data[n])

\* C2: the pair table mix_eam_alloy returns is symmetric in its two species
\* indices at every sample.
MixPairSymmetric ==
    (IsMix /\ ret.status = "ok") =>
        LET rep == ret.pot.rep
        IN  \A i, j \in 0..(ALen(rep) - 1) : \A k \in 0..(ret.pot.Nr - 1) :
                At3(rep, i, j, k) = At3(rep, j, i, k)

\* C3: every off-diagonal entry of the mixed pair table, in either order of
\* its indices, is sqrt(|rep[i,i,k] * rep[j,j,k]|) of the merged diagonal.
MixCrossValue ==
    (IsMix /\ ret.status = "ok") =>
        LET rep == ret.pot.rep
        IN  \A i, j \in 0..(ALen(rep) - 1) : \A k \in 0..(ret.pot.Nr - 1) :
                i # j => At3(rep, i, j, k)
                           = Sqrt(Abs(At3(rep, i, i, k) * At3(rep, j, j, k)))

TruncatedRaises ==
    (ret.op = "read_eam" /\ Len(ret.text) >= 3 /\ GridOk(ret.text[3])
       /\ Len(LoadTxt(ret.text)) < ret.text[3][1].n + 2 * ret.text[3][3].n)
        => ret.status # "ok"

\* C6: the tables mix_eam_alloy returns have the shapes read_eam_alloy
\* returns, and write_eam_alloy on them emits per species its header line,
\* Nrho embedding values and Nr density values.
MixOutputShape ==
    /\ (IsMix /\ ret.status = "ok") =>
          LET q == ret.pot
              K == Len(q.atoms)
          IN  /\ q.F.shape = <<K, q.Nrho>>
              /\ q.f.shape = <<K, q.Nr>>
              /\ q.rep.shape = <<K, K, q.Nr>>
    /\ (ret.op = "write_eam_alloy" /\ ret.files = <<"m">>) =>
          LET q == wrote["m"]
              K == Len(q.atoms)
          IN  /\ ret.status = "ok"
              /\ \A i \in 0..(K - 1) :
                    LET at == 5 + i * (1 + q.Nrho + q.Nr) + 1
                    IN  /\ at + q.Nrho + q.Nr <= Len(disk["m"])
                        /\ disk["m"][at] = AtLine(q, i + 1)
                        /\ \A n \in 1..(q.Nrho + q.Nr) : Len(disk["m"][at + n]) = 1

\* C7: for every species of every input file the mixer resamples the file's
\* diagonal entry rep[i,i,:] and stores it on the merged diagonal.
MixSelfPairSource ==
    (IsMix /\ ret.files # <<>> /\ \A j \in 1..Len(ret.files) : MixInputs[j].status = "ok") =>
        LET in == [j \in 1..Len(ret.files) |-> MixInputs[j].pot]
            q == ret.pot
        IN  /\ ret.status = "ok"
            /\ \A n \in 0..(Len(q.atoms) - 1) :
                  LET at == Locate(in, 1, n)
                      src == in[at.j]
                      diag == Resample(Sub(Sub(src.rep, at.i), at.i).data,
                                       src.Nr, src.dr, q.Nr, q.dr)
                  IN  \A k \in 0..(q.Nr - 1) : At3(q.rep, n, n, k) = diag[k + 1]

\* C8: the pair table read_eam_alloy returns holds, above the diagonal, the
\* values read for the mirrored entry below it.
ReaderPairSymmetric ==
    (ret.op = "read_eam_alloy" /\ ret.status = "ok") =>
        LET rep == ret.pot.rep
        IN  \A i, j \in 0..(ALen(rep) - 1) : \A k \in 0..(ret.pot.Nr - 1) :
                j < i => At3(rep, j, i, k) = At3(rep, i, j, k)

\* the line (from 0) at which write_eam_alloy emitted the header of species i
RECURSIVE WrittenHeaderLine(_, _)
WrittenHeaderLine(p, i) ==
    IF i = 0 THEN Len(TitleLines(p.source)) + 2
    ELSE WrittenHeaderLine(p, i - 1) + Len(SpeciesBlock(p, i - 1))

\* C9: in a file write_eam_alloy wrote from a K-species potential whose
\* source holds no line break, the row read_eam_alloy computes for species i
\* is the line where the writer put that species' header, for every i.
HeaderStride ==
    \A name \in AlloyFiles :
        (disk[name] # <<>> /\ Len(wrote[name].source) = 1) =>
            LET p == wrote[name]
                eam == disk[name]
            IN  \A i \in 0..(Len(p.atoms) - 1) :
                    LET row == HeaderRow(i, eam[5][1].n, eam[5][3].n, Len(eam[7]))
                    IN  /\ row = WrittenHeaderLine(p, i)
                        /\ eam[row + 1] = AtLine(p, i + 1)

\* A two-species file with Nrho + Nr > 2 has been written and read back.
HeaderStrideWitness ==
    /\ IsRead("a") /\ ret.status = "ok"
    /\ Len(wrote["a"].atoms) = 2 /\ Len(wrote["a"].source) = 1
    /\ wrote["a"].Nrho = 2 /\ wrote["a"].Nr = 1
    /\ ret.pot.atnumber = <<29, 28>>

\* C10: the grids the mixer chooses end within the tabulated range of every
\* input: Nrho_*drho_ <= Nrho[j]*drho[j] and Nr_*dr_ <= Nr[j]*dr[j].
MixNoExtrapolation ==
    (IsMix /\ ret.status = "ok") =>
        \A j \in 1..Len(ret.files) :
            LET in == MixInputs[j].pot
            IN  /\ ret.pot.Nrho * ret.pot.drho <= in.Nrho * in.drho
                /\ ret.pot.Nr * ret.pot.dr <= in.Nr * in.dr

====
